---- MODULE Spec2Model ----
(***************************************************************************)
(* A model of render_issue_bundle_markdown.py: the renderer that turns an  *)
(* issue bundle (meta, epics, issues) into a Markdown report, and the      *)
(* command-line driver around it.                                          *)
(*                                                                         *)
(* JSON values are tagged records [k, v]; a mapping keeps its members as a *)
(* sequence of <<key, value>> pairs in document order.  A text is a        *)
(* sequence of tokens: a token is one character, or (in literal labels and *)
(* in the fixed display words) an opaque run of ordinary characters.       *)
(***************************************************************************)
EXTENDS Integers, Sequences, FiniteSets, TLC

VARIABLES
  universe,  \* which bounded set of inputs the run draws from
  pc,        \* "start", "parsed" once json.loads returned, "args" once the
             \* arguments of _id_key are chosen, "done" at the end
  bundle,    \* the document json.loads returns / the argument of the renderer
  md,        \* outcome of render_issue_bundle_markdown: status and report
  stdout,    \* the writes main made to sys.stdout
  stderr,    \* kinds of the messages main printed to sys.stderr
  exitcode,  \* main's return value (-1: main was not run or did not return)
  idArgs,    \* arguments of the _id_key calls under study
  idKeys     \* their results

vars == <<universe, pc, bundle, md, stdout, stderr, exitcode, idArgs, idKeys>>

(***************************************************************************)
(* JSON values                                                             *)
(***************************************************************************)
JNull == [k |-> "null", v |-> 0]
JBool(b) == [k |-> "bool", v |-> b]
JNum(n) == [k |-> "num", v |-> n]
JStr(s) == [k |-> "str", v |-> s]
JList(s) == [k |-> "list", v |-> s]
JObj(s) == [k |-> "obj", v |-> s]

IsNone(x) == x.k = "null"
IsStr(x) == x.k = "str"
IsList(x) == x.k = "list"
IsDict(x) == x.k = "obj"

\* key in mapping
Has(o, key) == \E i \in 1..Len(o.v) : o.v[i][1] = key

\* mapping.get(key): the member's value, None when the key is absent
Get(o, key) ==
  IF Has(o, key) THEN o.v[CHOOSE i \in 1..Len(o.v) : o.v[i][1] = key][2] ELSE JNull

\* Python truth value of a JSON value (the test `not x`)
Truthy(x) ==
  CASE x.k = "null" -> FALSE
    [] x.k = "bool" -> x.v
    [] x.k = "num" -> x.v # 0
    [] OTHER -> Len(x.v) > 0

\* dict.get(x) hashes x: a list or a dict argument raises TypeError
Hashable(x) == x.k \notin {"list", "obj"}

(***************************************************************************)
(* Characters and texts                                                    *)
(***************************************************************************)
Ascii ==
  <<" ", "!", "DQUOTE", "#", "$", "%", "&", "'", "(", ")", "*", "+", ",", "-", ".", "/",
    "0", "1", "2", "3", "4", "5", "6", "7", "8", "9", ":", ";", "<", "=", ">", "?",
    "@", "A", "B", "C", "D", "E", "F", "G", "H", "I", "J", "K", "L", "M", "N", "O",
    "P", "Q", "R", "S", "T", "U", "V", "W", "X", "Y", "Z", "[", "\\", "]", "^", "_",
    "BACKTICK", "a", "b", "c", "d", "e", "f", "g", "h", "i", "j", "k", "l", "m", "n", "o",
    "p", "q", "r", "s", "t", "u", "v", "w", "x", "y", "z", "{", "|", "}", "~">>

AsciiSet == {Ascii[i] : i \in 1..Len(Ascii)}

\* code point of a character (str comparison is by code point)
OrdMap ==
  [c \in AsciiSet \cup {"\n", "\t"} |->
     IF c = "\n" THEN 10
     ELSE IF c = "\t" THEN 9
     ELSE 31 + (CHOOSE i \in 1..Len(Ascii) : Ascii[i] = c)]

Ord(c) == OrdMap[c]

Upper == {Ascii[i] : i \in 34..59}
Digits == {Ascii[i] : i \in 17..26}
DigitVal(c) == Ord(c) - 48
IsSpace(c) == c \in {" ", "\n", "\t"}

\* a < b for Python strings
StrLT(a, b) ==
  \E i \in 1..Len(b) :
    /\ i - 1 <= Len(a)
    /\ \A j \in 1..(i - 1) : a[j] = b[j]
    /\ \/ i = Len(a) + 1
       \/ i <= Len(a) /\ a[i] # b[i] /\ Ord(a[i]) < Ord(b[i])

RECURSIVE Join(_, _)
\* sep.join(parts)
Join(sep, parts) ==
  IF parts = <<>> THEN <<>>
  ELSE IF Len(parts) = 1 THEN parts[1]
  ELSE parts[1] \o sep \o Join(sep, Tail(parts))

RECURSIVE Flatten(_)
Flatten(parts) == IF parts = <<>> THEN <<>> ELSE parts[1] \o Flatten(Tail(parts))

RECURSIVE NatText(_)
\* str(n) for a natural number
NatText(n) == IF n < 10 THEN <<Ascii[17 + n]>> ELSE NatText(n \div 10) \o <<Ascii[17 + (n % 10)]>>

RECURSIVE IntOf(_)
\* int(num_str) for a string of digits
IntOf(s) == IF s = <<>> THEN 0 ELSE 10 * IntOf(SubSeq(s, 1, Len(s) - 1)) + DigitVal(s[Len(s)])

\* the escapes repr() applies inside a quoted string (quote characters are not modelled)
ReprChar(c) ==
  IF c = "\\" THEN <<"\\", "\\">>
  ELSE IF c = "\n" THEN <<"\\", "n">>
  ELSE IF c = "\t" THEN <<"\\", "t">>
  ELSE <<c>>

RECURSIVE PyRepr(_)
\* repr(x): what str() of a list or dict shows for its members
PyRepr(x) ==
  IF x.k = "null" THEN <<"N", "o", "n", "e">>
  ELSE IF x.k = "bool" THEN (IF x.v THEN <<"T", "r", "u", "e">> ELSE <<"F", "a", "l", "s", "e">>)
  ELSE IF x.k = "num" THEN NatText(x.v)
  ELSE IF x.k = "str" THEN <<"'">> \o Flatten([i \in 1..Len(x.v) |-> ReprChar(x.v[i])]) \o <<"'">>
  ELSE IF x.k = "list"
    THEN <<"[">> \o Join(<<",", " ">>, [i \in 1..Len(x.v) |-> PyRepr(x.v[i])]) \o <<"]">>
  ELSE <<"{">> \o Join(<<",", " ">>,
                      [i \in 1..Len(x.v) |->
                         <<"'", x.v[i][1], "'", ":", " ">> \o PyRepr(x.v[i][2])]) \o <<"}">>

\* str(x)
PyStr(x) == IF x.k = "str" THEN x.v ELSE PyRepr(x)

(***************************************************************************)
(* Module constants                                                        *)
(***************************************************************************)
UserStory == <<"user_story">>
Task == <<"task">>
Bug == <<"bug">>
Unknown == <<"unknown">>

TYPE_DISPLAY ==
  (UserStory :> <<"User", " ", "Story">>) @@ (Task :> <<"Task">>) @@ (Bug :> <<"Bug">>)

ISSUE_PREFIX_ORDER == (<<"U", "S">> :> 0) @@ (<<"T", "A", "S", "K">> :> 1) @@ (<<"B", "U", "G">> :> 2)
E_PREFIX_ORDER == (<<"E">> :> 0)
Q_PREFIX_ORDER == (<<"Q">> :> 0)
US_PREFIX_ORDER == (<<"U", "S">> :> 0)

\* mapping.get(key, default) for the tables above
TableGet(table, key, default) == IF key \in DOMAIN table THEN table[key] ELSE default

\* TYPE_DISPLAY.get(t, t) for a hashable t
TypeDisplay(t) == IF IsStr(t) /\ t.v \in DOMAIN TYPE_DISPLAY THEN JStr(TYPE_DISPLAY[t.v]) ELSE t

(***************************************************************************)
(* _id_key                                                                 *)
(***************************************************************************)
\* position of the first "-" of s, 0 when there is none
FirstHyphen(s) ==
  IF \E i \in 1..Len(s) : s[i] = "-"
  THEN CHOOSE i \in 1..Len(s) : s[i] = "-" /\ \A j \in 1..(i - 1) : s[j] # "-"
  ELSE 0

\* re.fullmatch(r"([A-Z]+)-(\d+)", s)
IdMatch(s) ==
  LET h == FirstHyphen(s)
  IN /\ h > 1
     /\ h < Len(s)
     /\ \A j \in 1..(h - 1) : s[j] \in Upper
     /\ \A j \in (h + 1)..Len(s) : s[j] \in Digits

\* _id_key with a slip: the number is kept only under a recognized prefix
_id_key_number_dropped(value, prefix_order) ==
  IF ~IsStr(value) THEN <<99, 0, PyStr(value)>>
  ELSE IF ~IdMatch(value.v) THEN <<99, 0, value.v>>
  ELSE LET h == FirstHyphen(value.v)
           prefix == SubSeq(value.v, 1, h - 1)
           num_str == SubSeq(value.v, h + 1, Len(value.v))
       IN IF prefix \in DOMAIN prefix_order
          THEN <<prefix_order[prefix], IntOf(num_str), value.v>>
          ELSE <<99, 0, value.v>>

_id_key(value, prefix_order) ==
  IF ~IsStr(value) THEN <<99, 0, PyStr(value)>>
  ELSE IF ~IdMatch(value.v) THEN <<99, 0, value.v>>
  ELSE LET h == FirstHyphen(value.v)
           prefix == SubSeq(value.v, 1, h - 1)
           num_str == SubSeq(value.v, h + 1, Len(value.v))
       IN <<TableGet(prefix_order, prefix, 99), IntOf(num_str), value.v>>

\* tuple comparison of two keys of one length: numbers, then a string last
KeyLT(a, b) ==
  \E i \in 1..Len(a) :
    /\ \A j \in 1..(i - 1) : a[j] = b[j]
    /\ IF i = Len(a) THEN StrLT(a[i], b[i]) ELSE a[i] < b[i]

\* a sequence with every element evaluated
Force(s) == s \o <<>>

\* sorted(s, key=...): stable; keys[p] is the key of s[p]
SortByKey(s, keys) ==
  LET n == Len(s)
      k == Force(keys)
      rank == Force([p \in 1..n |->
                1 + Cardinality({q \in 1..n : KeyLT(k[q], k[p]) \/ (~KeyLT(k[p], k[q]) /\ q < p)})])
  IN Force([r \in 1..n |-> s[CHOOSE p \in 1..n : rank[p] = r]])

(***************************************************************************)
(* _md_cell and _format_estimate                                           *)
(***************************************************************************)
Dash == <<"EMDASH">>

\* str.replace("\n", " ")
ReplaceNewlines(s) == [i \in 1..Len(s) |-> IF s[i] = "\n" THEN " " ELSE s[i]]

\* str.strip()
Strip(s) ==
  IF \A i \in 1..Len(s) : IsSpace(s[i]) THEN <<>>
  ELSE LET a == CHOOSE i \in 1..Len(s) : ~IsSpace(s[i]) /\ \A j \in 1..(i - 1) : IsSpace(s[j])
           b == CHOOSE i \in 1..Len(s) : ~IsSpace(s[i]) /\ \A j \in (i + 1)..Len(s) : IsSpace(s[j])
       IN SubSeq(s, a, b)

\* str.replace("|", "\\|")
EscapePipes(s) == Flatten([i \in 1..Len(s) |-> IF s[i] = "|" THEN <<"\\", "|">> ELSE <<s[i]>>])

\* the items of a list that are not None
NotNone(items) == SelectSeq(items, LAMBDA x : ~IsNone(x))

_md_cell(value) ==
  IF IsNone(value) THEN Dash
  ELSE LET joined == IF IsList(value)
                     THEN Join(<<",", " ">>, [i \in 1..Len(NotNone(value.v)) |-> PyStr(NotNone(value.v)[i])])
                     ELSE PyStr(value)
           text == Strip(ReplaceNewlines(joined))
       IN IF text # <<>> THEN EscapePipes(text) ELSE Dash

_format_estimate(estimate) ==
  IF ~IsDict(estimate) THEN Dash
  ELSE LET method == Get(estimate, "method")
           value == Get(estimate, "value")
       IN IF IsNone(method) THEN Dash
          ELSE IF method = JStr(Unknown) THEN Unknown
          ELSE IF IsNone(value) THEN PyStr(method)
          ELSE PyStr(method) \o <<" ">> \o PyStr(value)

(***************************************************************************)
(* _require_object                                                         *)
(***************************************************************************)
\* _require_object with a slip: the issues member is not looked at
_require_object_without_issues(b) ==
  /\ IsDict(b)
  /\ \A key \in {"meta", "epics"} : Has(b, key)
  /\ IsDict(Get(b, "meta"))
  /\ IsList(Get(b, "epics"))

\* TRUE when the shape check passes, FALSE when it raises ValueError
_require_object(b) ==
  /\ IsDict(b)
  /\ \A key \in {"meta", "epics", "issues"} : Has(b, key)
  /\ IsDict(Get(b, "meta"))
  /\ IsList(Get(b, "epics"))
  /\ IsList(Get(b, "issues"))

(***************************************************************************)
(* Report lines.  A line is a sequence of segments; a segment records      *)
(* where its text comes from: a literal of the program ("lit"), a value    *)
(* formatted by _md_cell ("cell"), the placeholder bullet of an empty      *)
(* section ("section"), the project name of the title ("project"), or a    *)
(* value written as it is ("raw", "json").  The em dash and the code fence *)
(* are written EMDASH and FENCE.                                           *)
(***************************************************************************)
Lit(s) == [src |-> "lit", val |-> JNull, text |-> <<s>>]
Cell(x) == [src |-> "cell", val |-> x, text |-> _md_cell(x)]
Blank == <<>>

\* the characters of a line
LineText(line) == Flatten([i \in 1..Len(line) |-> line[i].text])

\* x if it is a list, else []
ListOr(x) == IF IsList(x) THEN x.v ELSE <<>>

\* for item in items: lines.append(f"{prefix}{_md_cell(item)}")
Bullets(prefix, items) == [i \in 1..Len(items) |-> <<Lit(prefix), Cell(items[i])>>]

\* the same, or the placeholder bullet when there is no item
BulletsOrDash(prefix, field, items) ==
  IF items # <<>> THEN Bullets(prefix, items)
  ELSE << <<Lit(prefix), [src |-> "section", val |-> field, text |-> Dash]>> >>

\* an optional bulleted section under a heading, omitted when empty
OptionalBullets(heading, prefix, items) ==
  IF items # <<>> THEN heading \o Bullets(prefix, items) ELSE <<>>

QuestionLines(q) ==
  LET context == Get(q, "context")
  IN << <<Lit("- **"), Cell(Get(q, "id")), Lit("** ("), Cell(Get(q, "type")),
          Lit(", owner: "), Cell(Get(q, "owner")), Lit("): "), Cell(Get(q, "question"))>> >>
     \o (IF IsStr(context) /\ Strip(context.v) # <<>>
         THEN << <<Lit("  - Context: "), Cell(context)>> >>
         ELSE <<>>)

_render_meta(meta) ==
  LET assumptions == ListOr(Get(meta, "assumptions"))
      open_questions == ListOr(Get(meta, "open_questions"))
      dicts == SelectSeq(open_questions, IsDict)
      qs == SortByKey(dicts, [p \in 1..Len(dicts) |-> _id_key(Get(dicts[p], "id"), Q_PREFIX_ORDER)])
  IN << <<Lit("## Meta")>>,
        <<Lit("- **Source:** "), Cell(Get(meta, "source"))>>,
        <<Lit("- **Generated:** "), Cell(Get(meta, "generated_at"))>>,
        Blank,
        <<Lit("## Assumptions")>> >>
     \o BulletsOrDash("- ", Get(meta, "assumptions"), assumptions)
     \o <<Blank, <<Lit("## Open Questions")>> >>
     \o (IF open_questions # <<>>
         THEN Flatten([i \in 1..Len(qs) |-> QuestionLines(qs[i])])
         ELSE << <<Lit("- "), [src |-> "section", val |-> Get(meta, "open_questions"), text |-> Dash]>> >>)

\* the epics that are mappings, in the order _render_epics visits them
SortedEpics(epics) ==
  LET dicts == SelectSeq(epics, IsDict)
  IN SortByKey(dicts, [p \in 1..Len(dicts) |-> _id_key(Get(dicts[p], "id"), E_PREFIX_ORDER)])

EpicLines(epic) ==
  << <<Lit("### "), Cell(Get(epic, "id")), Lit(": "), Cell(Get(epic, "title"))>>,
     <<Lit("- **Objective:** "), Cell(Get(epic, "objective"))>>,
     <<Lit("- **Exit criteria:**")>> >>
  \o BulletsOrDash("  - ", Get(epic, "exit_criteria"), ListOr(Get(epic, "exit_criteria")))
  \o OptionalBullets(<< <<Lit("- **Non-goals:**")>> >>, "  - ", ListOr(Get(epic, "non_goals")))
  \o <<Blank>>

\* the lines _render_epics appends
_render_epics(epics) ==
  LET sorted == SortedEpics(epics)
      body == Flatten([i \in 1..Len(sorted) |-> EpicLines(sorted[i])])
  IN <<Blank, <<Lit("## Epics")>> >>
     \o (IF sorted = <<>>
         THEN << <<Lit("- "), [src |-> "section", val |-> JList(epics), text |-> Dash]>> >>
         ELSE SubSeq(body, 1, Len(body) - 1))

\* epic_by_id.get(epic_id, {}): the last epic, in sorted order, with this string id
EpicById(epics, epic_id) ==
  LET sorted == SortedEpics(epics)
      hits == {i \in 1..Len(sorted) : Get(sorted[i], "id") = JStr(epic_id)}
  IN IF hits = {} THEN JObj(<<>>)
     ELSE sorted[CHOOSE i \in hits : \A j \in hits : j <= i]

\* the cell of the type column: TYPE_DISPLAY.get(type, type) through _md_cell
TypeCell(issue) ==
  [src |-> "cell", val |-> Get(issue, "type"), text |-> _md_cell(TypeDisplay(Get(issue, "type")))]

\* one data row of the Backlog Summary table
SummaryRow(issue) ==
  <<Lit("|"), Lit(" "), Cell(Get(issue, "id")), Lit(" "),
    Lit("|"), Lit(" "), TypeCell(issue), Lit(" "),
    Lit("|"), Lit(" "), Cell(Get(issue, "priority")), Lit(" "),
    Lit("|"), Lit(" "), Cell(Get(issue, "status")), Lit(" "),
    Lit("|"), Lit(" "), Cell(Get(issue, "epic_id")), Lit(" "),
    Lit("|"), Lit(" "), Cell(Get(issue, "parent_id")), Lit(" "),
    Lit("|"), Lit(" "), Cell(Get(issue, "workstream")), Lit(" "),
    Lit("|"), Lit(" "), Cell(Get(issue, "title")), Lit(" "),
    Lit("|"), Lit(" "), Cell(Get(issue, "blocked_by")), Lit(" "),
    Lit("|")>>

SummaryHead ==
  <<Blank, <<Lit("## Backlog Summary")>>, Blank,
    <<Lit("| ID | Type | P | Status | Epic | Parent | WS | Title | Blocked by |")>>,
    <<Lit("|---|---|---|---|---|---|---|---|---|")>> >>

_render_issue_common(issue) ==
  << <<Lit("#### "), Cell(Get(issue, "id")), Lit(": "), Cell(Get(issue, "title"))>>,
     <<Lit("- **Type:** "), TypeCell(issue),
       Lit("  **Priority:** "), Cell(Get(issue, "priority")),
       Lit("  **Status:** "), Cell(Get(issue, "status")),
       Lit("  **Estimate:** "),
       [src |-> "cell", val |-> Get(issue, "estimate"),
        text |-> _md_cell(JStr(_format_estimate(Get(issue, "estimate"))))]>>,
     <<Lit("- **Epic:** "), Cell(Get(issue, "epic_id")),
       Lit("  **Parent:** "), Cell(Get(issue, "parent_id")),
       Lit("  **Workstream:** "), Cell(Get(issue, "workstream"))>>,
     <<Lit("- **Labels:** "), Cell(Get(issue, "labels"))>>,
     <<Lit("- **Blocked by:** "), Cell(Get(issue, "blocked_by"))>>,
     Blank,
     <<Lit("**Description**")>>,
     <<Cell(Get(issue, "description"))>> >>

\* lines.append(""); lines.append(heading); lines.append(_md_cell(issue.get(field)))
Para(heading, issue, field) == <<Blank, <<Lit(heading)>>, <<Cell(Get(issue, field))>> >>

DoneLines(issue) ==
  OptionalBullets(<<Blank, <<Lit("**Definition of Done**")>> >>, "- ",
                  ListOr(Get(issue, "definition_of_done")))

_render_user_story(issue) ==
  Para("**Story**", issue, "story")
  \o Para("**Value**", issue, "value")
  \o <<Blank, <<Lit("**Acceptance Criteria**")>> >>
  \o BulletsOrDash("- ", Get(issue, "acceptance_criteria"), ListOr(Get(issue, "acceptance_criteria")))
  \o DoneLines(issue)

_render_task(issue) ==
  Para("**Task Kind**", issue, "task_kind")
  \o Para("**Deliverable**", issue, "deliverable")
  \o Para("**Verification**", issue, "verification")
  \o OptionalBullets(<<Blank, <<Lit("**Acceptance Criteria**")>> >>, "- ",
                     ListOr(Get(issue, "acceptance_criteria")))
  \o DoneLines(issue)

_render_bug(issue) ==
  Para("**Severity**", issue, "severity")
  \o Para("**Environment**", issue, "environment")
  \o <<Blank, <<Lit("**Steps to Reproduce**")>> >>
  \o BulletsOrDash("- ", Get(issue, "steps_to_reproduce"), ListOr(Get(issue, "steps_to_reproduce")))
  \o Para("**Expected**", issue, "expected")
  \o Para("**Actual**", issue, "actual")
  \o <<Blank, <<Lit("**Acceptance Criteria**")>> >>
  \o BulletsOrDash("- ", Get(issue, "acceptance_criteria"), ListOr(Get(issue, "acceptance_criteria")))
  \o DoneLines(issue)

_render_issue_details(issue) ==
  LET issue_type == Get(issue, "type")
  IN _render_issue_common(issue)
     \o (IF issue_type = JStr(UserStory) THEN _render_user_story(issue)
         ELSE IF issue_type = JStr(Task) THEN _render_task(issue)
         ELSE IF issue_type = JStr(Bug) THEN _render_bug(issue)
         ELSE <<>>)
     \o <<Blank>>

(***************************************************************************)
(* render_issue_bundle_markdown.  The report is kept as its sections in    *)
(* order; a section records which call appended its lines: the summary row *)
(* or detail block of issues[idx], the heading of an epic group, and for a *)
(* detail block the loop that rendered it (role).                          *)
(***************************************************************************)
Section(kind, idx, role, epic, lines) ==
  [kind |-> kind, idx |-> idx, role |-> role, epic |-> epic, lines |-> lines]

\* positions of the elements of issues that are mappings (issue_dicts)
IssueDicts(issues) == SelectSeq([i \in 1..Len(issues) |-> i], LAMBDA i : IsDict(issues[i]))

\* issue_dicts_sorted, as positions in issues
IssueDictsSorted(issues) ==
  LET dicts == IssueDicts(issues)
  IN SortByKey(dicts, [p \in 1..Len(dicts) |-> _id_key(Get(issues[dicts[p]], "id"), ISSUE_PREFIX_ORDER)])

\* children_by_parent_id.get(parent, []); sorted is issue_dicts_sorted
ChildrenOf(issues, sorted, parent) ==
  SelectSeq(sorted,
            LAMBDA i : LET parent_id == Get(issues[i], "parent_id")
                       IN IsStr(parent_id) /\ parent_id.v # <<>> /\ parent_id.v = parent)

\* the key of epic_groups an issue is filed under (None: JNull)
GroupKey(issue) == IF IsStr(Get(issue, "epic_id")) THEN Get(issue, "epic_id") ELSE JNull

\* epic_groups with a slip: every issue is filed under every key
GroupOf_unfiltered(issues, sorted, epic_id) == sorted

\* epic_groups.get(epic_id, [])
GroupOf(issues, sorted, epic_id) == SelectSeq(sorted, LAMBDA i : GroupKey(issues[i]) = epic_id)

\* epic_ids_sorted with a slip: None is put first instead of last
EpicIdsSorted_none_first(issues, sorted) ==
  LET first == SelectSeq([p \in 1..Len(sorted) |-> p],
                         LAMBDA p : \A q \in 1..(p - 1) :
                                       GroupKey(issues[sorted[q]]) # GroupKey(issues[sorted[p]]))
      keys == [p \in 1..Len(first) |-> GroupKey(issues[sorted[first[p]]])]
      eids == SelectSeq(keys, IsStr)
  IN SelectSeq(keys, IsNone)
     \o SortByKey(eids, [p \in 1..Len(eids) |-> _id_key(eids[p], E_PREFIX_ORDER)])

\* epic_ids_sorted: the string keys sorted by epic key, then None if it is a key
EpicIdsSorted(issues, sorted) ==
  LET first == SelectSeq([p \in 1..Len(sorted) |-> p],
                         LAMBDA p : \A q \in 1..(p - 1) :
                                       GroupKey(issues[sorted[q]]) # GroupKey(issues[sorted[p]]))
      keys == [p \in 1..Len(first) |-> GroupKey(issues[sorted[first[p]]])]
      eids == SelectSeq(keys, IsStr)
  IN SortByKey(eids, [p \in 1..Len(eids) |-> _id_key(eids[p], E_PREFIX_ORDER)])
     \o SelectSeq(keys, IsNone)

\* str(id).split("-", 1)[0]
SplitHead(s) == IF FirstHyphen(s) = 0 THEN s ELSE SubSeq(s, 1, FirstHyphen(s) - 1)

\* the sort key of a child: (prefix rank of str(id), _id_key(id)), with the
\* inner tuple written out (the nested tuples compare in the same order)
ChildKey(issue) ==
  <<TableGet(ISSUE_PREFIX_ORDER, SplitHead(PyStr(Get(issue, "id"))), 99)>>
  \o _id_key(Get(issue, "id"), ISSUE_PREFIX_ORDER)

\* the user stories of a group, in the order the loop of line 323 visits them
StoriesOf(issues, group) ==
  LET user_stories == SelectSeq(group, LAMBDA i : Get(issues[i], "type") = JStr(UserStory))
  IN SortByKey(user_stories,
               [p \in 1..Len(user_stories) |-> _id_key(Get(issues[user_stories[p]], "id"), US_PREFIX_ORDER)])

\* the children rendered beneath a story, sorted
SortedChildren(issues, sorted, story) ==
  LET story_id == Get(issues[story], "id")
  IN IF IsStr(story_id)
     THEN LET children == ChildrenOf(issues, sorted, story_id.v)
          IN SortByKey(children, [p \in 1..Len(children) |-> ChildKey(issues[children[p]])])
     ELSE <<>>

\* others_top_level
OthersTopLevel(issues, group) ==
  SelectSeq(group,
            LAMBDA i : Get(issues[i], "type") # JStr(UserStory) /\ ~Truthy(Get(issues[i], "parent_id")))

Detail(issues, i, role, epic_id) ==
  Section("detail", i, role, epic_id, _render_issue_details(issues[i]))

\* a story's block and the blocks of its children
StoryBlocks(issues, sorted, story, epic_id) ==
  LET children == SortedChildren(issues, sorted, story)
  IN <<Detail(issues, story, "story", epic_id)>>
     \o [c \in 1..Len(children) |-> Detail(issues, children[c], "child", epic_id)]

\* the heading line of an epic group
GroupHeading(epics, epic_id) ==
  IF IsNone(epic_id) THEN <<Blank, <<Lit("### No Epic")>> >>
  ELSE <<Blank,
         <<Lit("### "), [src |-> "raw", val |-> epic_id, text |-> epic_id.v], Lit(": "),
           Cell(Get(EpicById(epics, epic_id.v), "title"))>> >>

\* one epic group of Issue Details
GroupSections(epics, issues, sorted, epic_id) ==
  LET group == GroupOf(issues, sorted, epic_id)
      stories == StoriesOf(issues, group)
      others == OthersTopLevel(issues, group)
  IN <<Section("heading", 0, "", epic_id, GroupHeading(epics, epic_id))>>
     \o Flatten([s \in 1..Len(stories) |-> StoryBlocks(issues, sorted, stories[s], epic_id)])
     \o [o \in 1..Len(others) |-> Detail(issues, others[o], "other", epic_id)]

\* the first line of the report
TitleLine(meta) ==
  LET project == Get(meta, "project")
  IN <<Lit("# Issue Bundle EMDASH "),
       [src |-> "project", val |-> project, text |-> IF IsStr(project) THEN project.v ELSE <<"TBD">>]>>

\* the elements of x the renderer uses: it keeps only the mappings of the
\* sequences it iterates (iterating a string or a mapping yields strings)
Items(x) == IF IsList(x) THEN x.v ELSE <<>>

\* the sections of the report, for a bundle that passed _require_object
Sections(b, include_json) ==
  LET meta == Get(b, "meta")
      epics == Items(Get(b, "epics"))
      issues == Items(Get(b, "issues"))
      sorted == IssueDictsSorted(issues)
      epic_ids == EpicIdsSorted(issues, sorted)
  IN <<Section("title", 0, "", JNull, <<TitleLine(meta), Blank>>),
       Section("meta", 0, "", JNull, _render_meta(meta)),
       Section("epics", 0, "", JNull, _render_epics(epics)),
       Section("summary", 0, "", JNull, SummaryHead)>>
     \o [r \in 1..Len(sorted) |-> Section("row", sorted[r], "", JNull, <<SummaryRow(issues[sorted[r]])>>)]
     \o <<Section("details", 0, "", JNull, <<Blank, <<Lit("## Issue Details")>> >>)>>
     \o Flatten([g \in 1..Len(epic_ids) |-> GroupSections(epics, issues, sorted, epic_ids[g])])
     \o (IF include_json
         THEN <<Section("json", 0, "", JNull,
                        <<Blank, <<Lit("## Issue Bundle (JSON)")>>, Blank, <<Lit("FENCE json")>>,
                          <<[src |-> "json", val |-> b, text |-> <<"json.dumps">>]>>,
                          <<Lit("FENCE")>> >>)>>
         ELSE <<>>)

Raise(exception) == [status |-> exception, sections |-> <<>>]

\* the exception, if any, that the statements after the shape check raise:
\* bundle["meta"] (272-274), meta.get (276), the comprehensions over epics and
\* issues (101, 284) and TYPE_DISPLAY.get(issue.get("type"), ...) (140)
BodyException(b) ==
  IF ~IsDict(b) THEN "TypeError"
  ELSE IF \E key \in {"meta", "epics", "issues"} : ~Has(b, key) THEN "KeyError"
  ELSE IF ~IsDict(Get(b, "meta")) THEN "AttributeError"
  ELSE IF \E key \in {"epics", "issues"} : Get(b, key).k \in {"null", "bool", "num"} THEN "TypeError"
  ELSE IF \E i \in 1..Len(Items(Get(b, "issues"))) :
            /\ IsDict(Get(b, "issues").v[i])
            /\ ~Hashable(Get(Get(b, "issues").v[i], "type"))
       THEN "TypeError"
  ELSE "none"

\* the outcome of render_issue_bundle_markdown(bundle, include_json=...)
render_issue_bundle_markdown(b, include_json) ==
  IF ~_require_object(b) THEN Raise("ValueError")
  ELSE IF BodyException(b) # "none" THEN Raise(BodyException(b))
  ELSE [status |-> "ok", sections |-> Sections(b, include_json)]

\* all lines appended, in order
AllLines(sections) == Flatten([i \in 1..Len(sections) |-> sections[i].lines])

\* a line of whitespace only
IsBlankLine(line) == \A i \in 1..Len(line) : \A j \in 1..Len(line[i].text) : IsSpace(line[i].text[j])

\* "\n".join(lines).rstrip() + "\n", as lines: the trailing blank lines go
\* (the last line left never ends in whitespace: it ends in a literal or a cell)
ReportLines(sections) ==
  LET lines == AllLines(sections)
      n == Len(lines)
  IN IF \A i \in 1..n : IsBlankLine(lines[i]) THEN <<>>
     ELSE SubSeq(lines, 1, CHOOSE i \in 1..n :
                             ~IsBlankLine(lines[i]) /\ \A j \in (i + 1)..n : IsBlankLine(lines[j]))

(***************************************************************************)
(* Bounded inputs                                                          *)
(***************************************************************************)
MaxIssues == 3   \* longest issues list of the grouping inputs
MaxWs == 2       \* longest whitespace-only string of the field inputs
MaxLen == 3      \* longest cell content of the table inputs
MaxIdLen == 4    \* longest enumerated identity string

SeqsUpTo(S, n) == UNION {[1..m -> S] : m \in 0..n}

Bundle(meta, epics, issues) ==
  JObj(<< <<"meta", meta>>, <<"epics", epics>>, <<"issues", issues>> >>)

\* mapping with the value of one key replaced (the key added when absent)
With(o, key, x) ==
  IF Has(o, key)
  THEN JObj([i \in 1..Len(o.v) |-> IF o.v[i][1] = key THEN <<key, x>> ELSE o.v[i]])
  ELSE JObj(Append(o.v, <<key, x>>))

US(n) == <<"U", "S", "-">> \o NatText(n)
TASK(n) == <<"T", "A", "S", "K", "-">> \o NatText(n)
BUG(n) == <<"B", "U", "G", "-">> \o NatText(n)
E(n) == <<"E", "-">> \o NatText(n)

\* --- top-level shapes ---------------------------------------------------
Absent == [k |-> "absent", v |-> 0]

ShapeVals == {Absent, JNull, JBool(TRUE), JNum(1), JStr(<<"x">>), JList(<<>>), JObj(<<>>)}

Members(meta, epics, issues) ==
  (IF meta = Absent THEN <<>> ELSE << <<"meta", meta>> >>)
  \o (IF epics = Absent THEN <<>> ELSE << <<"epics", epics>> >>)
  \o (IF issues = Absent THEN <<>> ELSE << <<"issues", issues>> >>)

ShapeBundles ==
  {JNull, JBool(FALSE), JNum(0), JStr(<<"meta">>), JList(<<>>), JList(<<Bundle(JObj(<<>>), JList(<<>>), JList(<<>>))>>)}
  \cup {JObj(Members(m, e, i)) : m \in ShapeVals, e \in ShapeVals, i \in ShapeVals}
  \cup {JObj(Members(m, e, i) \o << <<"extra", JNum(1)>> >>) : m \in {JObj(<<>>)}, e \in ShapeVals, i \in ShapeVals}

\* --- one field of one entity --------------------------------------------
A == JStr(<<"a">>)

BaseQuestion ==
  JObj(<< <<"id", JStr(<<"Q", "-", "1">>)>>, <<"type", A>>, <<"owner", A>>, <<"question", A>>,
          <<"context", A>> >>)

BaseMeta ==
  JObj(<< <<"project", A>>, <<"source", A>>, <<"generated_at", A>>,
          <<"assumptions", JList(<<A>>)>>, <<"open_questions", JList(<<BaseQuestion>>)>> >>)

BaseEpic ==
  JObj(<< <<"id", JStr(E(1))>>, <<"title", A>>, <<"objective", A>>,
          <<"exit_criteria", JList(<<A>>)>>, <<"non_goals", JList(<<A>>)>> >>)

BaseIssue(type) ==
  JObj(<< <<"id", JStr(TASK(1))>>, <<"type", type>>, <<"priority", A>>, <<"status", A>>,
          <<"epic_id", JStr(E(1))>>, <<"parent_id", JNull>>, <<"workstream", A>>, <<"title", A>>,
          <<"blocked_by", JList(<<A>>)>>, <<"labels", JList(<<A>>)>>,
          <<"estimate", JObj(<< <<"method", JStr(<<"points">>)>>, <<"value", JNum(3)>> >>)>>,
          <<"description", A>>, <<"story", A>>, <<"value", A>>, <<"task_kind", A>>,
          <<"deliverable", A>>, <<"verification", A>>, <<"severity", A>>, <<"environment", A>>,
          <<"steps_to_reproduce", JList(<<A>>)>>, <<"expected", A>>, <<"actual", A>>,
          <<"acceptance_criteria", JList(<<A>>)>>, <<"definition_of_done", JList(<<A>>)>> >>)

SummaryFields ==
  {"id", "type", "priority", "status", "epic_id", "parent_id", "workstream", "title", "blocked_by"}

\* the places a value is put: entity, field, and whether as the only item of a list
Place(ent, field, item) == [ent |-> ent, field |-> field, item |-> item]

Places ==
  {Place("meta", f, FALSE) : f \in {"project", "source", "generated_at", "assumptions", "open_questions"}}
  \cup {Place("meta", "assumptions", TRUE)}
  \cup {Place("question", f, FALSE) : f \in {"id", "type", "owner", "question", "context"}}
  \cup {Place("epic", f, i) : f \in {"exit_criteria", "non_goals"}, i \in BOOLEAN}
  \cup {Place("epic", f, FALSE) : f \in {"id", "title", "objective"}}
  \cup {Place("task", f, FALSE) : f \in SummaryFields \cup {"labels", "estimate", "description"}}
  \cup {Place("task", f, FALSE) : f \in {"task_kind", "deliverable", "verification"}}
  \cup {Place("user_story", f, FALSE) : f \in {"story", "value"}}
  \cup {Place("bug", f, FALSE) : f \in {"severity", "environment", "expected", "actual"}}
  \cup {Place(t, f, i) : t \in {"user_story", "task", "bug"},
                         f \in {"acceptance_criteria", "definition_of_done"}, i \in BOOLEAN}
  \cup {Place("bug", "steps_to_reproduce", i) : i \in BOOLEAN}

\* the base document with value x at place p
FieldBundle(p, x) ==
  LET y == IF p.item THEN JList(<<x>>) ELSE x
  IN IF p.ent = "meta" THEN Bundle(With(BaseMeta, p.field, y), JList(<<BaseEpic>>), JList(<<BaseIssue(JStr(Task))>>))
     ELSE IF p.ent = "question"
       THEN Bundle(With(BaseMeta, "open_questions", JList(<<With(BaseQuestion, p.field, y)>>)),
                   JList(<<BaseEpic>>), JList(<<BaseIssue(JStr(Task))>>))
     ELSE IF p.ent = "epic"
       THEN Bundle(BaseMeta, JList(<<With(BaseEpic, p.field, y)>>), JList(<<BaseIssue(JStr(Task))>>))
     ELSE Bundle(BaseMeta, JList(<<BaseEpic>>), JList(<<With(BaseIssue(JStr(<<p.ent>>)), p.field, y)>>))

WsStrings == {JStr(s) : s \in SeqsUpTo({" ", "\n", "\t"}, MaxWs)}

FieldValues ==
  WsStrings
  \cup {A, JStr(<<" ", "a", "|", "b", "\n">>), JStr(UserStory), JStr(Unknown)}
  \cup {JNull, JBool(FALSE), JNum(0), JNum(7), JList(<<>>), JList(<<JNull>>),
        JList(<<JStr(<<" ">>), JStr(<<"a", "|">>)>>), JObj(<<>>),
        JObj(<< <<"method", JStr(<<" ">>)>> >>),
        JObj(<< <<"method", JStr(Unknown)>>, <<"value", JNum(2)>> >>),
        JObj(<< <<"method", JList(<<>>)>>, <<"value", JStr(<<>>)>> >>)}

FieldBundles == {FieldBundle(p, x) : p \in Places, x \in FieldValues}

\* --- table cells ---------------------------------------------------------
CellAlphabet == {"a", "|", "\\", " ", "\n"}

CellBundles ==
  {FieldBundle(Place("task", f, FALSE), JStr(s)) : f \in SummaryFields, s \in SeqsUpTo(CellAlphabet, MaxLen)}

\* --- grouping ------------------------------------------------------------
Issue(id, type, epic_id, parent_id) ==
  JObj(<< <<"id", id>>, <<"type", type>>, <<"epic_id", epic_id>>, <<"parent_id", parent_id>> >>)

\* issues that differ in what the ordering and the grouping look at
PoolSeq ==
  <<Issue(JStr(BUG(1)), JStr(Bug), JStr(E(1)), JNull),
    Issue(JStr(TASK(2)), JStr(Task), JStr(E(1)), JStr(US(1))),
    Issue(JStr(TASK(1)), JNull, JNum(5), JStr(<<>>)),
    Issue(JStr(US(10)), JStr(UserStory), JNull, JStr(US(10))),
    Issue(JStr(TASK(9)), JStr(UserStory), JStr(E(1)), JNull),
    Issue(JStr(US(2)), JStr(UserStory), JStr(E(2)), JStr(US(1))),
    Issue(JStr(TASK(1)), JStr(Task), JStr(E(10)), JStr(US(1))),
    Issue(JNull, JStr(UserStory), JStr(E(1)), JNum(0)),
    Issue(JStr(TASK(3)), JStr(Task), JStr(E(1)), JStr(BUG(1))),
    Issue(JStr(US(1)), JStr(UserStory), JStr(E(1)), JNull)>>

IssuePool == {PoolSeq[i] : i \in 1..Len(PoolSeq)}

\* odd elements, tried alone and in pairs with every issue
OddPool ==
  { Issue(JStr(<<"X", "-", "7">>), JStr(<<"epic">>), JStr(<<>>), JNum(7)),
    Issue(JStr(US(3)), JList(<<>>), JStr(E(1)), JNull),
    JStr(<<"x">>) }

GroupEpics ==
  JList(<<JObj(<< <<"id", JStr(E(2))>>, <<"title", A>> >>),
          JObj(<< <<"id", JStr(E(1))>>, <<"title", JStr(<<>>)>> >>),
          JStr(<<"x">>)>>)

\* the bundle of one epic, one story and one task beneath it
ScenarioBundle ==
  Bundle(JObj(<<>>), JList(<<JObj(<< <<"id", JStr(E(1))>>, <<"title", A>> >>)>>),
         JList(<<Issue(JStr(US(1)), JStr(UserStory), JStr(E(1)), JNull),
                 Issue(JStr(TASK(1)), JStr(Task), JStr(E(1)), JStr(US(1)))>>))

GroupBundles ==
  {Bundle(JObj(<<>>), GroupEpics, JList(s)) : s \in SeqsUpTo(IssuePool, MaxIssues)}
  \cup {Bundle(JObj(<<>>), GroupEpics, JList(s)) : s \in SeqsUpTo(IssuePool \cup OddPool, 2)}
  \cup {ScenarioBundle, Bundle(JObj(<<>>), GroupEpics, JList(PoolSeq))}

Inputs(u) ==
  CASE u = "shape" -> ShapeBundles
    [] u = "fields" -> FieldBundles
    [] u = "cells" -> CellBundles
    [] u = "group" -> GroupBundles
    [] OTHER -> {}

(***************************************************************************)
(* main: one action per way through it                                     *)
(***************************************************************************)
Unset == [k |-> "unset", v |-> 0]
NoCall == [status |-> "none", sections |-> <<>>]

\* sys.stdout.write(md): one write, of the text held in md, recorded with the
\* number of lines "\n".join(lines).rstrip() + "\n" has
Written(sections) == <<[text |-> "md", lines |-> Len(ReportLines(sections))]>>

\* _load_json_text raises FileNotFoundError (371-373)
MainFileNotFound ==
  /\ pc = "start"
  /\ pc' = "done"
  /\ stderr' = <<"error: file not found">>
  /\ exitcode' = 2
  /\ UNCHANGED <<universe, bundle, md, stdout, idArgs, idKeys>>

\* _load_json_text raises another OSError (374-376)
MainReadError ==
  /\ pc = "start"
  /\ pc' = "done"
  /\ stderr' = <<"error: could not read">>
  /\ exitcode' = 2
  /\ UNCHANGED <<universe, bundle, md, stdout, idArgs, idKeys>>

\* json.loads raises JSONDecodeError (378-382)
MainInvalidJson ==
  /\ pc = "start"
  /\ pc' = "done"
  /\ stderr' = <<"error: invalid JSON">>
  /\ exitcode' = 2
  /\ UNCHANGED <<universe, bundle, md, stdout, idArgs, idKeys>>

\* the file is read and json.loads returns the document (369-379)
MainLoad ==
  /\ pc = "start"
  /\ bundle' \in Inputs(universe)
  /\ pc' = "parsed"
  /\ UNCHANGED <<universe, md, stdout, stderr, exitcode, idArgs, idKeys>>

\* --validate, and the validator cannot be imported (384-389)
MainValidatorMissing ==
  /\ pc = "parsed"
  /\ pc' = "done"
  /\ stderr' = <<"error: could not import validator">>
  /\ exitcode' = 2
  /\ UNCHANGED <<universe, bundle, md, stdout, idArgs, idKeys>>

\* --validate, and the validator (an external module) reports errors (390-396)
MainValidationFailed ==
  /\ pc = "parsed"
  /\ \E warnings \in {<<>>, <<"warning">>} : stderr' = warnings \o <<"error">>
  /\ pc' = "done"
  /\ exitcode' = 1
  /\ UNCHANGED <<universe, bundle, md, stdout, idArgs, idKeys>>

\* the document is rendered (398-405): without --validate, or with it and no
\* validation error.  An exception other than ValueError is not caught: the
\* interpreter prints the traceback and the process ends with status 1.
MainRender ==
  /\ pc = "parsed"
  /\ \E no_json \in BOOLEAN :
       \E r \in {render_issue_bundle_markdown(bundle, ~no_json)}, warnings \in {<<>>, <<"warning">>} :
         /\ md' = r
         /\ IF r.status = "ok"
            THEN stdout' = Written(r.sections) /\ stderr' = warnings /\ exitcode' = 0
            ELSE IF r.status = "ValueError"
            THEN stdout' = <<>> /\ stderr' = warnings \o <<"error: ValueError">> /\ exitcode' = 2
            ELSE stdout' = <<>> /\ stderr' = warnings \o <<"Traceback", r.status>> /\ exitcode' = 1
  /\ pc' = "done"
  /\ UNCHANGED <<universe, bundle, idArgs, idKeys>>

Start(u) ==
  /\ universe = u
  /\ pc = "start"
  /\ bundle = Unset
  /\ md = NoCall
  /\ stdout = <<>>
  /\ stderr = <<>>
  /\ exitcode = -1
  /\ idArgs = <<>>
  /\ idKeys = <<>>

Next ==
  \/ MainFileNotFound
  \/ MainReadError
  \/ MainInvalidJson
  \/ MainLoad
  \/ MainValidatorMissing
  \/ MainValidationFailed
  \/ MainRender

Init == Start("group")
Spec == Init /\ [][Next]_vars

InitShape == Start("shape")
SpecShape == InitShape /\ [][Next]_vars

InitFields == Start("fields")
SpecFields == InitFields /\ [][Next]_vars

InitCells == Start("cells")
SpecCells == InitCells /\ [][Next]_vars

(***************************************************************************)
(* _id_key called on two identities with one prefix table, as sorted()     *)
(* does when it compares two elements.                                     *)
(***************************************************************************)
IdAlphabet == {"U", "S", "-", "1", "0", "s"}

IdStrings ==
  {JStr(s) : s \in SeqsUpTo(IdAlphabet, MaxIdLen)}
  \cup {JStr(US(10)), JStr(TASK(12)), JStr(BUG(3)), JStr(E(2)), JStr(E(10)),
        JStr(<<"Q", "-", "1">>), JStr(<<"X", "-", "7">>), JStr(<<"z", "z", "z">>),
        JStr(<<"U", "S", "-", "0", "0", "7">>)}

IdOthers == {JNull, JNum(0), JNum(7), JBool(TRUE), JList(<<>>), JObj(<<>>)}

IdTables == {ISSUE_PREFIX_ORDER, E_PREFIX_ORDER, Q_PREFIX_ORDER, US_PREFIX_ORDER}

\* the caller picks an identity, a second one to compare it with, and a table
IdKeyArgs ==
  /\ pc = "start"
  /\ \E value \in IdStrings \cup IdOthers, other \in IdOthers \cup {JStr(US(1)), JStr(<<"z", "z", "z">>)},
        prefix_order \in IdTables :
       idArgs' = <<value, other, prefix_order>>
  /\ pc' = "args"
  /\ UNCHANGED <<universe, bundle, md, stdout, stderr, exitcode, idKeys>>

\* _id_key(value, prefix_order) and _id_key(other, prefix_order)
IdKeyCall ==
  /\ pc = "args"
  /\ idKeys' = <<_id_key(idArgs[1], idArgs[3]), _id_key(idArgs[2], idArgs[3])>>
  /\ pc' = "done"
  /\ UNCHANGED <<universe, bundle, md, stdout, stderr, exitcode, idArgs>>

NextKey ==
  \/ IdKeyArgs
  \/ IdKeyCall

InitKey == Start("key")
SpecKey == InitKey /\ [][NextKey]_vars

(***************************************************************************)
(* Properties.  Each is stated from what the report must look like, over   *)
(* the bundle that was read and the sections that were produced.           *)
(***************************************************************************)
\* render_issue_bundle_markdown was called and has returned or raised
Called == pc = "done" /\ md.status # "none"

\* it returned a report
Rendered == pc = "done" /\ md.status = "ok"

\* the top-level shape: a mapping whose meta is a mapping and whose epics and
\* issues are sequences
WellShaped(b) ==
  /\ b.k = "obj"
  /\ \A key \in {"meta", "epics", "issues"} : \E i \in 1..Len(b.v) : b.v[i][1] = key
  /\ Get(b, "meta").k = "obj"
  /\ Get(b, "epics").k = "list"
  /\ Get(b, "issues").k = "list"

\* the elements of issues, and the positions of those that are mappings
TheIssues == Get(bundle, "issues").v
DictPositions == {i \in 1..Len(TheIssues) : TheIssues[i].k = "obj"}

\* positions of the sections of one kind
Positions(kind) == {p \in 1..Len(md.sections) : md.sections[p].kind = kind}

\* the issue a row or a detail block was rendered from
IssueAt(p) == TheIssues[md.sections[p].idx]

\* C1: an input that is not a mapping, or lacks meta, epics or issues, or
\* whose meta is not a mapping, or whose epics or issues is not a sequence,
\* makes rendering fail with ValueError before any line is produced, and
\* main writes nothing to standard output.
C1_MalformedBundleRejected ==
  (Called /\ ~WellShaped(bundle)) =>
    /\ md.status = "ValueError"
    /\ md.sections = <<>>
    /\ stdout = <<>>

\* C1's case: a mapping with meta and epics but without issues was rejected
C1_Witness ==
  /\ Called
  /\ bundle.k = "obj"
  /\ Has(bundle, "meta") /\ Has(bundle, "epics") /\ ~Has(bundle, "issues")
  /\ md.status = "ValueError"
  /\ stdout = <<>>

\* C2: a document that passes the top-level shape check never makes the
\* renderer raise, and the text returned is not empty, whatever the kinds of
\* the nested values.
C2_NestedValuesNeverRaise ==
  (Called /\ WellShaped(bundle)) =>
    /\ md.status = "ok"
    /\ ReportLines(md.sections) # <<>>

\* the number of backslashes directly before position i of a text
BackslashesBefore(t, i) ==
  CHOOSE n \in 0..(i - 1) :
    /\ \A j \in (i - n)..(i - 1) : t[j] = "\\"
    /\ n = i - 1 \/ t[i - n - 1] # "\\"

\* a pipe is escaped when an odd number of backslashes precedes it: each
\* pair of backslashes is an escaped backslash
EscapedPipes(t) == {i \in 1..Len(t) : t[i] = "|" /\ BackslashesBefore(t, i) % 2 = 1}
DelimiterPipes(t) == {i \in 1..Len(t) : t[i] = "|" /\ BackslashesBefore(t, i) % 2 = 0}

\* C3: every summary row has nine cells, that is ten unescaped pipes, and a
\* field whose string content holds a pipe is rendered with an escaped pipe,
\* for content made of ordinary characters, pipes, backslashes, spaces and
\* newlines.
C3_RowKeepsNineCells ==
  Rendered =>
    \A p \in Positions("row") :
      LET row == md.sections[p].lines[1]
      IN /\ Cardinality(DelimiterPipes(LineText(row))) = 10
         /\ \A c \in 1..Len(row) :
              (/\ row[c].src = "cell"
               /\ row[c].val.k = "str"
               /\ \E i \in 1..Len(row[c].val.v) : row[c].val.v[i] = "|")
              => EscapedPipes(row[c].text) # {}

\* a numeral without its leading zeros
StripZeros(d) ==
  IF \A i \in 1..Len(d) : d[i] = "0" THEN <<"0">>
  ELSE SubSeq(d, CHOOSE i \in 1..Len(d) : d[i] # "0" /\ \A j \in 1..(i - 1) : d[j] = "0", Len(d))

\* a <= b as numbers, for two numerals
NumeralLE(a, b) ==
  LET x == StripZeros(a)
      y == StripZeros(b)
  IN Len(x) < Len(y) \/ (Len(x) = Len(y) /\ ~StrLT(y, x))

IssuePrefixes == << <<"U", "S">>, <<"T", "A", "S", "K">>, <<"B", "U", "G">> >>

\* x is the identity IssuePrefixes[r]-<digits>
HasIssuePrefix(x, r) ==
  LET n == Len(IssuePrefixes[r])
  IN /\ x.k = "str"
     /\ Len(x.v) > n + 1
     /\ SubSeq(x.v, 1, n + 1) = IssuePrefixes[r] \o <<"-">>
     /\ \A j \in (n + 2)..Len(x.v) : x.v[j] \in Digits

\* the digits of such an identity
NumeralOf(x, r) == SubSeq(x.v, Len(IssuePrefixes[r]) + 2, Len(x.v))

\* the summary table has one row per mapping of issues, in key order
SummaryRowsInOrder ==
  /\ \A i \in DictPositions : Cardinality({p \in Positions("row") : md.sections[p].idx = i}) = 1
  /\ \A p \in Positions("row") : md.sections[p].idx \in DictPositions
  /\ \A p, q \in Positions("row") :
       p < q =>
         /\ ~KeyLT(_id_key(Get(IssueAt(q), "id"), ISSUE_PREFIX_ORDER),
                   _id_key(Get(IssueAt(p), "id"), ISSUE_PREFIX_ORDER))
         /\ \A r, t \in 1..3 :
              (HasIssuePrefix(Get(IssueAt(p), "id"), r) /\ HasIssuePrefix(Get(IssueAt(q), "id"), t))
              => \/ r < t
                 \/ r = t /\ NumeralLE(NumeralOf(Get(IssueAt(p), "id"), r), NumeralOf(Get(IssueAt(q), "id"), t))

\* C4: for every valid bundle the Backlog Summary table has exactly one data
\* row per mapping among issues, none for the other elements, and the rows
\* are in non-decreasing identity-key order: US before TASK before BUG, and
\* by ascending number within a prefix.
C4_OneRowPerIssueInKeyOrder == (Called /\ WellShaped(bundle)) => SummaryRowsInOrder

\* the same, for the bundles the renderer returns a report for
RowsInOrderWhenRendered == Rendered => SummaryRowsInOrder

\* the heading a detail block stands under: the last heading before it
HeadingOf(p) ==
  CHOOSE h \in Positions("heading") : h < p /\ \A g \in Positions("heading") : g < p => g <= h

\* the detail blocks under heading h
BlocksUnder(h) == {p \in Positions("detail") : HeadingOf(p) = h}

\* the group an issue belongs to: its epic_id, or none when that is not a string
OwnGroup(issue) == IF Get(issue, "epic_id").k = "str" THEN Get(issue, "epic_id") ELSE JNull

IsStory(issue) == Get(issue, "type") = JStr(<<"user_story">>)

\* issue names parent as its parent: its parent_id is the parent's identity
ChildOfStory(issue, parent) ==
  /\ Get(parent, "id").k = "str"
  /\ Get(parent, "id").v # <<>>
  /\ Get(issue, "parent_id") = Get(parent, "id")

\* the story block a child block belongs to: the last story block before it
StoryBefore(p) ==
  CHOOSE t \in Positions("detail") :
    /\ t < p
    /\ md.sections[t].role = "story"
    /\ \A u \in (t + 1)..(p - 1) : md.sections[u].role = "child"

\* the row of the summary table an issue has
RowOf(i) == CHOOSE p \in Positions("row") : md.sections[p].idx = i

\* the headings are the groups of the issues, in ascending epic key order,
\* with the group of no epic last
GroupsInOrder ==
  /\ {md.sections[h].epic : h \in Positions("heading")} = {OwnGroup(TheIssues[i]) : i \in DictPositions}
  /\ \A h, g \in Positions("heading") :
       h < g =>
         /\ md.sections[h].epic # JNull
         /\ md.sections[g].epic # JNull =>
              KeyLT(_id_key(md.sections[h].epic, E_PREFIX_ORDER), _id_key(md.sections[g].epic, E_PREFIX_ORDER))

\* what the blocks under heading h are: stories of the group, each followed
\* directly by its children; then the other issues of the group
BlocksInOrder(h) ==
  /\ \A p \in BlocksUnder(h) :
       LET s == md.sections[p]
       IN /\ s.role \in {"story", "other"} => OwnGroup(IssueAt(p)) = md.sections[h].epic
          /\ s.role = "story" => IsStory(IssueAt(p))
          /\ s.role = "other" => ~IsStory(IssueAt(p)) /\ ~Truthy(Get(IssueAt(p), "parent_id"))
          /\ s.role = "child" =>
               /\ p - 1 \in BlocksUnder(h)
               /\ md.sections[p - 1].role \in {"story", "child"}
               /\ ChildOfStory(IssueAt(p), IssueAt(StoryBefore(p)))
  /\ \A p, q \in BlocksUnder(h) :
       p < q =>
         LET a == md.sections[p]
             b == md.sections[q]
         IN /\ a.role = "other" => b.role = "other"
            /\ (a.role = "story" /\ b.role = "story") =>
                 ~KeyLT(_id_key(Get(IssueAt(q), "id"), US_PREFIX_ORDER),
                        _id_key(Get(IssueAt(p), "id"), US_PREFIX_ORDER))
            /\ (a.role = "child" /\ b.role = "child" /\ q = p + 1) =>
                 ~KeyLT(ChildKey(IssueAt(q)), ChildKey(IssueAt(p)))
            /\ (a.role = "other" /\ b.role = "other") => RowOf(a.idx) < RowOf(b.idx)

\* every story and every parentless non-story issue has its block in its
\* group, and every child of a story has its block in the story's run
BlocksComplete ==
  \A i \in DictPositions :
    /\ IsStory(TheIssues[i]) =>
         Cardinality({p \in Positions("detail") :
                        /\ md.sections[p].idx = i
                        /\ md.sections[p].role = "story"
                        /\ md.sections[HeadingOf(p)].epic = OwnGroup(TheIssues[i])}) = 1
    /\ (~IsStory(TheIssues[i]) /\ ~Truthy(Get(TheIssues[i], "parent_id"))) =>
         Cardinality({p \in Positions("detail") :
                        /\ md.sections[p].idx = i
                        /\ md.sections[p].role = "other"
                        /\ md.sections[HeadingOf(p)].epic = OwnGroup(TheIssues[i])}) = 1
    /\ \A t \in Positions("detail") :
         (md.sections[t].role = "story" /\ ChildOfStory(TheIssues[i], IssueAt(t))) =>
           Cardinality({p \in Positions("detail") :
                          /\ md.sections[p].idx = i
                          /\ md.sections[p].role = "child"
                          /\ StoryBefore(p) = t}) = 1

\* C5: in Issue Details the epic groups come in ascending epic key order
\* with the no-epic group last; in a group the user stories come in ascending
\* key order (the key of the stories' own table, US), the children of a story
\* directly after it and before the next story, sorted by prefix rank and
\* then key, and the non-story issues without a parent after every story, in
\* the order they have in the summary table.
C5_DetailsOrdered ==
  Rendered =>
    /\ GroupsInOrder
    /\ \A h \in Positions("heading") : BlocksInOrder(h)
    /\ BlocksComplete

\* C5's case: two epic groups before the no-epic group, and a group holding a
\* story, its child, a next story and then another issue
C5_Witness ==
  /\ Rendered
  /\ \E h, g, n \in Positions("heading") :
       /\ h < g /\ g < n
       /\ md.sections[n].epic = JNull
       /\ \E p, q \in BlocksUnder(h) :
            /\ md.sections[p].role = "story"
            /\ md.sections[p + 1].role = "child"
            /\ q > p + 1 /\ md.sections[q].role = "story"
            /\ \E o \in BlocksUnder(h) : o > q /\ md.sections[o].role = "other"

\* C6: for the bundle of one epic E-1, the story US-1 and the task TASK-1
\* whose parent is US-1, Issue Details shows under the heading of E-1 the
\* detail of US-1 directly followed by that of TASK-1; and the block of a
\* child beneath its story is indented: its lines are not the lines the same
\* issue gets as a top-level entry.
C6_ChildIndented ==
  Rendered =>
    /\ bundle = ScenarioBundle =>
         \E h \in Positions("heading") :
           /\ md.sections[h].epic = JStr(<<"E", "-", "1">>)
           /\ Get(IssueAt(h + 1), "id") = JStr(<<"U", "S", "-", "1">>)
           /\ Get(IssueAt(h + 2), "id") = JStr(<<"T", "A", "S", "K", "-", "1">>)
           /\ BlocksUnder(h) = {h + 1, h + 2}
    /\ \A p \in Positions("detail") :
         md.sections[p].role = "child" =>
           md.sections[p].lines # _render_issue_details(IssueAt(p))

\* the part of C6 about the place of the blocks alone
ScenarioOrderShown ==
  (Rendered /\ bundle = ScenarioBundle) =>
    \E h \in Positions("heading") :
      /\ md.sections[h].epic = JStr(<<"E", "-", "1">>)
      /\ Get(IssueAt(h + 1), "id") = JStr(<<"U", "S", "-", "1">>)
      /\ Get(IssueAt(h + 2), "id") = JStr(<<"T", "A", "S", "K", "-", "1">>)
      /\ BlocksUnder(h) = {h + 1, h + 2}

\* C9: for every valid bundle each mapping among issues has its detail block
\* rendered exactly once in Issue Details, whatever its type, epic_id and
\* parent_id.
C9_EveryIssueOnce ==
  Rendered =>
    \A i \in DictPositions :
      Cardinality({p \in Positions("detail") : md.sections[p].idx = i}) = 1

\* C10 as claimed: every detail block under a group heading is of an issue
\* of that group, a child included even when its story has another epic_id.
C10_BlockInOwnGroup ==
  Rendered =>
    \A p \in Positions("detail") : OwnGroup(IssueAt(p)) = md.sections[HeadingOf(p)].epic

\* C10 as amended: every detail block under a group heading is of an issue
\* of that group, or of a child of a user story of that group whose block
\* stands above it under the same heading.
C10_BlockInGroupOrUnderParent ==
  Rendered =>
    \A p \in Positions("detail") :
      \/ OwnGroup(IssueAt(p)) = md.sections[HeadingOf(p)].epic
      \/ \E t \in BlocksUnder(HeadingOf(p)) :
           /\ t < p
           /\ IsStory(IssueAt(t))
           /\ OwnGroup(IssueAt(t)) = md.sections[HeadingOf(p)].epic
           /\ ChildOfStory(IssueAt(p), IssueAt(t))

\* C10's case: a child rendered under its story in a group that is not its own
C10_Witness ==
  /\ Rendered
  /\ \E p \in Positions("detail") :
       /\ OwnGroup(IssueAt(p)) # md.sections[HeadingOf(p)].epic
       /\ \E t \in BlocksUnder(HeadingOf(p)) : t < p /\ ChildOfStory(IssueAt(p), IssueAt(t))

\* a value the placeholder law speaks of: null, an empty list, or a string
\* that is empty or of whitespace only
EmptyValue(x) ==
  \/ x.k = "null"
  \/ x.k = "list" /\ x.v = <<>>
  \/ x.k = "str" /\ \A i \in 1..Len(x.v) : x.v[i] \in {" ", "\n", "\t"}

\* the segments of the report that show a field of the bundle
FieldSegments ==
  {seg \in UNION {UNION {{line[c] : c \in 1..Len(line)} : line \in {md.sections[p].lines[l] : l \in 1..Len(md.sections[p].lines)}}
                  : p \in 1..Len(md.sections)} :
     seg.src \in {"cell", "section", "raw", "project"}}

\* C7: wherever a field of meta, an epic, a question or an issue is written
\* into the report (title line, meta lines, epic headings, group headings,
\* table cells, detail lines, bullets), a value that is null, an empty list
\* or an empty or whitespace-only string is shown as the placeholder dash.
\* (An omitted optional section writes nothing.  In the title line the
\* documented default TBD is accepted as the placeholder too.)
C7_EmptyValueShownAsPlaceholder ==
  Rendered =>
    \A seg \in FieldSegments :
      EmptyValue(seg.val) =>
        \/ seg.text = <<"EMDASH">>
        \/ seg.src = "project" /\ seg.text = <<"TBD">>

\* the same for the values that go through _md_cell only
EmptyCellShownAsPlaceholder ==
  Rendered =>
    \A seg \in FieldSegments :
      (seg.src \in {"cell", "section"} /\ EmptyValue(seg.val)) => seg.text = <<"EMDASH">>

\* s splits at h into capital letters, a hyphen and digits
SplitsAt(s, h) ==
  /\ h > 1
  /\ h < Len(s)
  /\ s[h] = "-"
  /\ \A j \in 1..(h - 1) : s[j] \in Upper
  /\ \A j \in (h + 1)..Len(s) : s[j] \in Digits

\* an identity of the form <PREFIX>-<digits>
WellFormed(x) == x.k = "str" /\ \E h \in 1..Len(x.v) : SplitsAt(x.v, h)

PrefixOf(x) == SubSeq(x.v, 1, (CHOOSE h \in 1..Len(x.v) : SplitsAt(x.v, h)) - 1)
DigitsOf(x) == SubSeq(x.v, (CHOOSE h \in 1..Len(x.v) : SplitsAt(x.v, h)) + 1, Len(x.v))

\* key is (rank of the prefix, value of the digits, the string) for a
\* well-formed identity with a recognized prefix
RecognizedKey(x, table, key) ==
  (WellFormed(x) /\ PrefixOf(x) \in DOMAIN table) =>
    /\ key[1] = table[PrefixOf(x)]
    /\ NatText(key[2]) = StripZeros(DigitsOf(x))
    /\ key[3] = x.v

====
